---- MODULE Spec2Model ----
(***************************************************************************)
(* OpSingleDateFormComponent                                               *)
(* frontend/src/app/shared/components/datepicker/single-date-form/         *)
(* single-date-form.component.ts                                           *)
(*                                                                         *)
(* The component's fields, its two subscriptions, the rxjs debounce timer  *)
(* and the single DatePicker handle are the state.  Every public method,   *)
(* every subscription callback and every widget callback is one action.    *)
(* DOM-only effects (onReady's class marker and reposition) are left out.  *)
(***************************************************************************)
EXTENDS Integers, Sequences, FiniteSets, TLC

(* Bounds *)

\* DatePicker instances constructed in one run
MaxInstances == 2

(* Program constants *)

\* private debounceDelay = 0
InitialDebounceDelay == 0

\* this.debounceDelay = 800
RealDebounceDelay == 800

\* val.length >= 8
MinimalLength == 8

\* datePickerInstance before the first initializeDatepicker
NoInstance == 0

\* the clock advances in half debounce periods
TickMs == RealDebounceDelay \div 2

(* Values *)

Null == "<null>"

Undefined == "<undefined>"

\* an empty selection of the widget
NoSelection == "<none>"

Jul01 == "Date(2022-07-01T00:00)"

Jul19 == "Date(2022-07-19T00:00)"

InvalidDate == "Date(Invalid)"

Dates == {Jul01, Jul19}

\* what the user can type into the text field
DateStrings == {"", "2022-7", "2022-7-1", "2022-13-45"}

\* what getMinimalDateFromPreceeding() can emit
MinimalDates == {Null, Jul01}

BoolStr(b) == IF b THEN "true" ELSE "false"

\* one externally visible effect of an operation
Ev(e) == [e |-> e, field |-> "", value |-> ""]

SetValue(field, value) == [e |-> "setValue", field |-> field, value |-> value]

(* date-modal.helpers, timezone service, DatePicker *)

parseDate(d) ==
  IF d \in Dates THEN d
  ELSE IF d = "" THEN ""
  ELSE IF d \in {"2022-7", "2022-7-1", "2022-07-01"} THEN Jul01
  ELSE IF d = "2022-07-19" THEN Jul19
  ELSE InvalidDate

validDate(d) ==
  \/ d \in Dates
  \/ d = ""
  \/ parseDate(d) # InvalidDate

formattedISODate(d) ==
  IF d = Jul01 THEN "2022-07-01"
  ELSE IF d = Jul19 THEN "2022-07-19"
  ELSE "Invalid date"

mappedDate(d) == IF d = "" THEN Null ELSE d

\* the selection flatpickr holds for a date handed to it
Selection(d) == IF d \in Dates THEN d ELSE NoSelection

\* setDates(dates, datePicker, enforceDate): the picker's selection becomes dates
setDates(dates, picker, enforceDate) ==
  [picker EXCEPT !.selected = Selection(dates)]

\* new DatePicker(injector, '#flatpickr-input', date, options, null)
DatePicker(dateArg, minimalDate) ==
  [initial |-> dateArg,
   minimalDate |-> minimalDate,
   selected |-> Selection(parseDate(dateArg))]

NoWidget ==
  [initial |-> Undefined, minimalDate |-> Undefined, selected |-> Undefined]

VARIABLES
  lifecycle,            \* "constructed", "viewInit", "destroyed"
  subscriptions,        \* the live subscriptions of the component
  date,                 \* this.date
  scheduleManually,     \* this.scheduleManually
  ignoreNonWorkingDays, \* this.ignoreNonWorkingDays
  debounceDelay,        \* this.debounceDelay
  changeset,            \* this.changeset
  isSchedulable,        \* dateModalScheduling.isSchedulable
  datePickerInstance,   \* this.datePickerInstance (an instance id)
  widget,               \* the DatePicker that datePickerInstance refers to
  liveInstances,        \* the DatePicker instances not destroyed
  instanceCount,        \* DatePicker instances constructed so far
  timer,                \* the debounce operator's pending timer
  sinceSignal,          \* ms elapsed since the last manual-edit signal
  unreconciled,         \* a manual-edit signal has not been reconciled yet
  reconciledOnce,       \* the debounced handler has run
  emitted,              \* the minimal date emitted last
  lastOp,               \* the operation that ran last
  opTrace               \* the effects of that operation, in order

vars ==
  <<lifecycle, subscriptions, date, scheduleManually, ignoreNonWorkingDays,
    debounceDelay, changeset, isSchedulable, datePickerInstance, widget,
    liveInstances, instanceCount, timer, sinceSignal, unreconciled,
    reconciledOnce, emitted, lastOp, opTrace>>

formVars == <<date, scheduleManually, ignoreNonWorkingDays, debounceDelay>>

widgetVars == <<datePickerInstance, widget, liveInstances, instanceCount>>

timerVars == <<timer, sinceSignal, unreconciled, reconciledOnce>>

envVars == <<lifecycle, subscriptions, changeset, isSchedulable>>

NoTimer == [pending |-> FALSE, delay |-> 0, remaining |-> 0]

Init ==
  /\ lifecycle = "constructed"
  /\ subscriptions = {}
  /\ date = Null
  /\ scheduleManually = FALSE
  /\ ignoreNonWorkingDays = FALSE
  /\ debounceDelay = InitialDebounceDelay
  /\ changeset = Undefined
  /\ isSchedulable \in BOOLEAN
  /\ datePickerInstance = NoInstance
  /\ widget = NoWidget
  /\ liveInstances = {}
  /\ instanceCount = 0
  /\ timer = NoTimer
  /\ sinceSignal = 0
  /\ unreconciled = FALSE
  /\ reconciledOnce = FALSE
  /\ emitted = Undefined
  /\ lastOp = "constructor"
  /\ opTrace = <<>>


(* Component methods as functions of the current state: each yields the    *)
(* fields it assigns and the effects it has, in order.                     *)

\* enforceManualChangesToDatepicker(enforceDate), with this.date = localDate.
\* setDates reads datePicker.datepickerInstance first: a TypeError when no
\* DatePicker has been constructed yet.
enforceManualChangesToDatepicker(localDate, enforceDate) ==
  IF datePickerInstance = NoInstance
  THEN [widget |-> widget, trace |-> <<Ev("TypeError")>>]
  ELSE LET d == parseDate(IF localDate = Null THEN "" ELSE localDate)
           w == setDates(d, widget, enforceDate)
       IN [widget |-> w,
           trace |-> <<[e |-> "setDates", field |-> "", value |-> w.selected]>>]

\* updateDate with the length test dropped
updateDate_NoLengthCheck(val) ==
  IF val # Null
  THEN IF validDate(val) /\ datePickerInstance # NoInstance
       THEN enforceManualChangesToDatepicker(date, parseDate(val))
       ELSE [widget |-> widget, trace |-> <<>>]
  ELSE [widget |-> widget, trace |-> <<>>]

\* updateDate with the validDate test dropped
updateDate_NoValidityCheck(val) ==
  IF val # Null /\ (Len(val) >= MinimalLength \/ Len(val) = 0)
  THEN IF datePickerInstance # NoInstance
       THEN enforceManualChangesToDatepicker(date, parseDate(val))
       ELSE [widget |-> widget, trace |-> <<>>]
  ELSE [widget |-> widget, trace |-> <<>>]

\* updateDate with the test for a DatePicker instance dropped
updateDate_NoInstanceCheck(val) ==
  IF val # Null /\ (Len(val) >= MinimalLength \/ Len(val) = 0)
  THEN IF validDate(val)
       THEN enforceManualChangesToDatepicker(date, parseDate(val))
       ELSE [widget |-> widget, trace |-> <<>>]
  ELSE [widget |-> widget, trace |-> <<>>]

\* updateDate pushing nothing into the widget
updateDate_NoPush(val) == [widget |-> widget, trace |-> <<>>]

updateDate(val) ==
  IF val # Null /\ (Len(val) >= MinimalLength \/ Len(val) = 0)
  THEN IF validDate(val) /\ datePickerInstance # NoInstance
       THEN enforceManualChangesToDatepicker(date, parseDate(val))
       ELSE [widget |-> widget, trace |-> <<>>]
  ELSE [widget |-> widget, trace |-> <<>>]

\* initializeDatepicker not handing its argument to the day callbacks
initializeDatepicker_NoFloor(minimalDate) ==
  [instance |-> instanceCount + 1,
   live |-> (liveInstances \ {datePickerInstance}) \cup {instanceCount + 1},
   widget |-> DatePicker(IF date = Null THEN "" ELSE date, Undefined),
   trace |-> (IF datePickerInstance # NoInstance
              THEN <<Ev("destroy")>> ELSE <<>>) \o <<Ev("create")>>]

\* initializeDatepicker without the destroy() of the previous instance
initializeDatepicker_NoDestroy(minimalDate) ==
  [instance |-> instanceCount + 1,
   live |-> liveInstances \cup {instanceCount + 1},
   widget |-> DatePicker(IF date = Null THEN "" ELSE date, minimalDate),
   trace |-> <<Ev("create")>>]

initializeDatepicker(minimalDate) ==
  [instance |-> instanceCount + 1,
   live |-> (liveInstances \ {datePickerInstance}) \cup {instanceCount + 1},
   widget |-> DatePicker(IF date = Null THEN "" ELSE date, minimalDate),
   trace |-> (IF datePickerInstance # NoInstance
              THEN <<Ev("destroy")>> ELSE <<>>) \o <<Ev("create")>>]

\* the effects of save($event)
saveTrace ==
  <<Ev("preventDefault")>> \o
  IF changeset = Undefined
  THEN <<Ev("TypeError")>>
  ELSE <<SetValue("scheduleManually", BoolStr(scheduleManually)),
         SetValue("ignoreNonWorkingDays", BoolStr(ignoreNonWorkingDays))>> \o
       (IF isSchedulable
        THEN <<SetValue("date", mappedDate(date))>> ELSE <<>>) \o
       <<Ev("emit")>>

\* cancel() writing the date before it emits
cancelTrace_Writes == <<SetValue("date", mappedDate(date)), Ev("emit")>>

\* the effects of cancel()
cancelTrace == <<Ev("emit")>>

\* debounce(() => timer(this.debounceDelay)) on a source value
\* throttle: a pending timer is kept
debounce_Throttle(t, delay) ==
  IF t.pending THEN t
  ELSE [pending |-> TRUE, delay |-> delay, remaining |-> delay]

debounce(t, delay) == [pending |-> TRUE, delay |-> delay, remaining |-> delay]

\* the subscriptions piped through untilDestroyed(): none
ReleasedOnDestroy == {}

(* Actions *)

ngAfterViewInit ==
  /\ lifecycle = "constructed"
  /\ lifecycle' = "viewInit"
  /\ subscriptions' = {"minimalDate", "dateChangedManually"}
  /\ lastOp' = "ngAfterViewInit"
  /\ emitted' = emitted
  /\ opTrace' = <<>>
  /\ UNCHANGED <<formVars, widgetVars, timerVars, changeset, isSchedulable>>

ngOnDestroy ==
  /\ lifecycle = "viewInit"
  /\ lifecycle' = "destroyed"
  /\ subscriptions' = subscriptions \ ReleasedOnDestroy
  /\ timer' = IF "dateChangedManually" \in ReleasedOnDestroy THEN NoTimer ELSE timer
  /\ lastOp' = "ngOnDestroy"
  /\ emitted' = emitted
  /\ opTrace' = <<>>
  /\ UNCHANGED <<formVars, widgetVars, sinceSignal, unreconciled,
                 reconciledOnce, changeset, isSchedulable>>

\* the callback of getMinimalDateFromPreceeding().subscribe
minimalDateEmits(minimalDate) ==
  /\ "minimalDate" \in subscriptions
  /\ instanceCount < MaxInstances
  /\ LET r == initializeDatepicker(minimalDate)
     IN /\ datePickerInstance' = r.instance
        /\ instanceCount' = r.instance
        /\ liveInstances' = r.live
        /\ widget' = r.widget
        /\ opTrace' = <<[e |-> "emission", field |-> "", value |-> minimalDate]>>
                       \o r.trace
  /\ lastOp' = "minimalDate"
  /\ emitted' = minimalDate
  /\ UNCHANGED <<formVars, timerVars, envVars>>

\* the text field's two-way binding assigns this.date
inputDate(s) ==
  /\ lifecycle = "viewInit"
  /\ date' = s
  /\ lastOp' = "inputDate"
  /\ emitted' = emitted
  /\ opTrace' = <<>>
  /\ UNCHANGED <<scheduleManually, ignoreNonWorkingDays, debounceDelay,
                 widgetVars, timerVars, envVars>>

\* the checkboxes' two-way bindings assign the toggles
inputScheduleManually ==
  /\ lifecycle = "viewInit"
  /\ scheduleManually' = ~scheduleManually
  /\ lastOp' = "inputScheduleManually"
  /\ emitted' = emitted
  /\ opTrace' = <<>>
  /\ UNCHANGED <<date, ignoreNonWorkingDays, debounceDelay,
                 widgetVars, timerVars, envVars>>

inputIgnoreNonWorkingDays ==
  /\ lifecycle = "viewInit"
  /\ ignoreNonWorkingDays' = ~ignoreNonWorkingDays
  /\ lastOp' = "inputIgnoreNonWorkingDays"
  /\ emitted' = emitted
  /\ opTrace' = <<>>
  /\ UNCHANGED <<date, scheduleManually, debounceDelay,
                 widgetVars, timerVars, envVars>>

\* dateChangedManually$.next()
dateChangedManuallyNext ==
  /\ lifecycle = "viewInit"
  /\ "dateChangedManually" \in subscriptions
  /\ timer' = debounce(timer, debounceDelay)
  /\ sinceSignal' = 0
  /\ unreconciled' = TRUE
  /\ lastOp' = "dateChangedManually"
  /\ emitted' = emitted
  /\ opTrace' = <<>>
  /\ UNCHANGED <<formVars, widgetVars, reconciledOnce, envVars>>

\* time passes while the debounce timer runs
Tick ==
  /\ timer.pending
  /\ timer.remaining > 0
  /\ timer' = [timer EXCEPT !.remaining = IF @ > TickMs THEN @ - TickMs ELSE 0]
  /\ sinceSignal' = sinceSignal + TickMs
  /\ lastOp' = "tick"
  /\ emitted' = emitted
  /\ opTrace' = <<>>
  /\ UNCHANGED <<formVars, widgetVars, unreconciled, reconciledOnce, envVars>>

\* the debounced handler leaving the delay as it is
debounceHandler_KeepsDelay ==
  /\ "dateChangedManually" \in subscriptions
  /\ timer.pending
  /\ timer.remaining = 0
  /\ debounceDelay' = debounceDelay
  /\ LET r == updateDate(date)
     IN /\ widget' = r.widget
        /\ opTrace' = <<Ev("reconcile")>> \o r.trace
  /\ timer' = NoTimer
  /\ sinceSignal' = sinceSignal
  /\ unreconciled' = FALSE
  /\ reconciledOnce' = TRUE
  /\ lastOp' = "debounceHandler"
  /\ emitted' = emitted
  /\ UNCHANGED <<date, scheduleManually, ignoreNonWorkingDays,
                 datePickerInstance, liveInstances, instanceCount, envVars>>

\* the subscriber of the debounced dateChangedManually$: the timer has expired
debounceHandler ==
  /\ "dateChangedManually" \in subscriptions
  /\ timer.pending
  /\ timer.remaining = 0
  /\ debounceDelay' = RealDebounceDelay
  /\ LET r == updateDate(date)
     IN /\ widget' = r.widget
        /\ opTrace' = <<Ev("reconcile")>> \o r.trace
  /\ timer' = NoTimer
  /\ sinceSignal' = sinceSignal
  /\ unreconciled' = FALSE
  /\ reconciledOnce' = TRUE
  /\ lastOp' = "debounceHandler"
  /\ emitted' = emitted
  /\ UNCHANGED <<date, scheduleManually, ignoreNonWorkingDays,
                 datePickerInstance, liveInstances, instanceCount, envVars>>

changeSchedulingMode ==
  /\ lifecycle = "viewInit"
  /\ instanceCount < MaxInstances
  /\ LET r == initializeDatepicker(Undefined)
     IN /\ datePickerInstance' = r.instance
        /\ instanceCount' = r.instance
        /\ liveInstances' = r.live
        /\ widget' = r.widget
        /\ opTrace' = r.trace \o <<Ev("detectChanges")>>
  /\ lastOp' = "changeSchedulingMode"
  /\ emitted' = emitted
  /\ UNCHANGED <<formVars, timerVars, envVars>>

\* changeNonWorkingDays without the change-detection pass
changeNonWorkingDays_NoDetect ==
  /\ lifecycle = "viewInit"
  /\ instanceCount < MaxInstances
  /\ LET r == initializeDatepicker(Undefined)
     IN /\ datePickerInstance' = r.instance
        /\ instanceCount' = r.instance
        /\ liveInstances' = r.live
        /\ widget' = r.widget
        /\ opTrace' = r.trace
  /\ lastOp' = "changeNonWorkingDays"
  /\ emitted' = emitted
  /\ UNCHANGED <<formVars, timerVars, envVars>>

changeNonWorkingDays ==
  /\ lifecycle = "viewInit"
  /\ instanceCount < MaxInstances
  /\ LET r == initializeDatepicker(Undefined)
     IN /\ datePickerInstance' = r.instance
        /\ instanceCount' = r.instance
        /\ liveInstances' = r.live
        /\ widget' = r.widget
        /\ opTrace' = r.trace \o <<Ev("detectChanges")>>
  /\ lastOp' = "changeNonWorkingDays"
  /\ emitted' = emitted
  /\ UNCHANGED <<formVars, timerVars, envVars>>

save ==
  /\ lifecycle = "viewInit"
  /\ lastOp' = "save"
  /\ emitted' = emitted
  /\ opTrace' = saveTrace
  /\ UNCHANGED <<formVars, widgetVars, timerVars, envVars>>

cancel ==
  /\ lifecycle = "viewInit"
  /\ lastOp' = "cancel"
  /\ emitted' = emitted
  /\ opTrace' = cancelTrace
  /\ UNCHANGED <<formVars, widgetVars, timerVars, envVars>>

\* a direct call of the public updateDate(val)
updateDateCall(val) ==
  /\ lifecycle = "viewInit"
  /\ LET r == updateDate(val)
     IN /\ widget' = r.widget
        /\ opTrace' = <<[e |-> "updateDate", field |-> "", value |-> val]>> \o r.trace
  /\ lastOp' = "updateDate"
  /\ emitted' = emitted
  /\ UNCHANGED <<formVars, datePickerInstance, liveInstances, instanceCount,
                 timerVars, envVars>>

\* setToday assigning the date and leaving the widget to the debounce
setToday_NoSync(today) ==
  /\ lifecycle = "viewInit"
  /\ date' = formattedISODate(parseDate(today))
  /\ widget' = widget
  /\ opTrace' = <<[e |-> "today", field |-> "", value |-> today]>>
  /\ lastOp' = "setToday"
  /\ emitted' = emitted
  /\ UNCHANGED <<scheduleManually, ignoreNonWorkingDays, debounceDelay,
                 datePickerInstance, liveInstances, instanceCount,
                 timerVars, envVars>>

setToday(today) ==
  /\ lifecycle = "viewInit"
  /\ date' = formattedISODate(parseDate(today))
  /\ LET r == enforceManualChangesToDatepicker(date', parseDate(today))
     IN /\ widget' = r.widget
        /\ opTrace' = <<[e |-> "today", field |-> "", value |-> today]>> \o r.trace
  /\ lastOp' = "setToday"
  /\ emitted' = emitted
  /\ UNCHANGED <<scheduleManually, ignoreNonWorkingDays, debounceDelay,
                 datePickerInstance, liveInstances, instanceCount,
                 timerVars, envVars>>

\* onChange requesting change detection only for a non-empty selection
onChange_NoDetectOnEmpty(dates) ==
  /\ lifecycle = "viewInit"
  /\ datePickerInstance # NoInstance
  /\ IF Len(dates) > 0
     THEN /\ date' = formattedISODate(dates[1])
          /\ LET r == enforceManualChangesToDatepicker(date', dates[1])
             IN /\ widget' = r.widget
                /\ opTrace' = <<[e |-> "dates", field |-> "", value |-> dates[1]]>>
                               \o r.trace \o <<Ev("detectChanges")>>
     ELSE /\ UNCHANGED <<date, widget>>
          /\ opTrace' = <<[e |-> "dates", field |-> "", value |-> NoSelection]>>
  /\ lastOp' = "onChange"
  /\ emitted' = emitted
  /\ UNCHANGED <<scheduleManually, ignoreNonWorkingDays, debounceDelay,
                 datePickerInstance, liveInstances, instanceCount,
                 timerVars, envVars>>

\* the onChange callback of the live DatePicker
onChange(dates) ==
  /\ lifecycle = "viewInit"
  /\ datePickerInstance # NoInstance
  /\ IF Len(dates) > 0
     THEN /\ date' = formattedISODate(dates[1])
          /\ LET r == enforceManualChangesToDatepicker(date', dates[1])
             IN /\ widget' = r.widget
                /\ opTrace' = <<[e |-> "dates", field |-> "", value |-> dates[1]]>>
                               \o r.trace \o <<Ev("detectChanges")>>
     ELSE /\ UNCHANGED <<date, widget>>
          /\ opTrace' = <<[e |-> "dates", field |-> "", value |-> NoSelection]>>
                         \o <<Ev("detectChanges")>>
  /\ lastOp' = "onChange"
  /\ emitted' = emitted
  /\ UNCHANGED <<scheduleManually, ignoreNonWorkingDays, debounceDelay,
                 datePickerInstance, liveInstances, instanceCount,
                 timerVars, envVars>>

\* what a form payload can carry as its date
PayloadDates == {"2022-07-01", "2022-07-19"}

\* updateDatesFromForm keeping the local ignoreNonWorkingDays
updateDatesFromForm_KeepsFlag(payloadDate, payloadIgnoreNonWorkingDays) ==
  /\ lifecycle = "viewInit"
  /\ date' = payloadDate
  /\ ignoreNonWorkingDays' = ignoreNonWorkingDays
  /\ LET r == enforceManualChangesToDatepicker(date', parseDate(payloadDate))
     IN /\ widget' = r.widget
        /\ opTrace' = <<[e |-> "payload",
                         field |-> BoolStr(payloadIgnoreNonWorkingDays),
                         value |-> payloadDate]>> \o r.trace
  /\ lastOp' = "updateDatesFromForm"
  /\ emitted' = emitted
  /\ UNCHANGED <<scheduleManually, debounceDelay,
                 datePickerInstance, liveInstances, instanceCount,
                 timerVars, envVars>>

updateDatesFromForm(payloadDate, payloadIgnoreNonWorkingDays) ==
  /\ lifecycle = "viewInit"
  /\ date' = payloadDate
  /\ ignoreNonWorkingDays' = payloadIgnoreNonWorkingDays
  /\ LET r == enforceManualChangesToDatepicker(date', parseDate(payloadDate))
     IN /\ widget' = r.widget
        /\ opTrace' = <<[e |-> "payload",
                         field |-> BoolStr(payloadIgnoreNonWorkingDays),
                         value |-> payloadDate]>> \o r.trace
  /\ lastOp' = "updateDatesFromForm"
  /\ emitted' = emitted
  /\ UNCHANGED <<scheduleManually, debounceDelay,
                 datePickerInstance, liveInstances, instanceCount,
                 timerVars, envVars>>

Next ==
  \/ ngAfterViewInit
  \/ ngOnDestroy
  \/ \E d \in MinimalDates : minimalDateEmits(d)
  \/ \E s \in DateStrings : inputDate(s)
  \/ inputScheduleManually
  \/ inputIgnoreNonWorkingDays
  \/ dateChangedManuallyNext
  \/ Tick
  \/ debounceHandler
  \/ changeSchedulingMode
  \/ changeNonWorkingDays
  \/ save
  \/ cancel
  \/ \E val \in DateStrings \cup {Null} : updateDateCall(val)
  \/ \E today \in Dates : setToday(today)
  \/ \E dates \in {<<>>} \cup {<<d>> : d \in Dates} : onChange(dates)
  \/ \E pd \in PayloadDates, pi \in BOOLEAN : updateDatesFromForm(pd, pi)

Spec == Init /\ [][Next]_vars

(* Properties *)

\* positions in the last operation's effects
Positions(e) == {i \in 1..Len(opTrace) : opTrace[i].e = e}

Writes(field) == {i \in Positions("setValue") : opTrace[i].field = field}

WritesOf(field, value) == {i \in Writes(field) : opTrace[i].value = value}

Toggles == {"changeSchedulingMode", "changeNonWorkingDays"}

\* a non-empty string of fewer than MinimalLength characters
Short(s) == s # Null /\ Len(s) > 0 /\ Len(s) < MinimalLength

\* a syntactically valid date string of at least MinimalLength characters
LongValid(s) == s # Null /\ Len(s) >= MinimalLength /\ validDate(s)

\* C1: save() while isSchedulable is false writes no 'date', writes
\* 'scheduleManually' and 'ignoreNonWorkingDays' with the component's current
\* values and emits savedOrCancelled exactly once.
C1_SaveNotSchedulable ==
  (lastOp = "save" /\ ~isSchedulable) =>
    /\ Writes("date") = {}
    /\ WritesOf("scheduleManually", BoolStr(scheduleManually)) # {}
    /\ WritesOf("ignoreNonWorkingDays", BoolStr(ignoreNonWorkingDays)) # {}
    /\ Cardinality(Positions("emit")) = 1

\* C2: save() while isSchedulable is true writes all three fields, the date
\* from the local date field, and emits savedOrCancelled exactly once, after
\* every write.
C2_SaveSchedulable ==
  (lastOp = "save" /\ isSchedulable) =>
    /\ WritesOf("scheduleManually", BoolStr(scheduleManually)) # {}
    /\ WritesOf("ignoreNonWorkingDays", BoolStr(ignoreNonWorkingDays)) # {}
    /\ WritesOf("date", mappedDate(date)) # {}
    /\ Cardinality(Positions("emit")) = 1
    /\ \A w \in Positions("setValue"), m \in Positions("emit") : w < m

\* C3: cancel() writes no field into the changeset, leaves the local date,
\* both toggles, the debounce delay and the widget instance unchanged and
\* emits savedOrCancelled exactly once.
C3_CancelOnlyEmits ==
  [][lastOp' = "cancel" =>
       /\ Positions("setValue")' = {}
       /\ Cardinality(Positions("emit")') = 1
       /\ UNCHANGED <<date, scheduleManually, ignoreNonWorkingDays,
                      debounceDelay, datePickerInstance, widget,
                      liveInstances>>]_vars

C3_Witness ==
  /\ lastOp = "cancel"
  /\ opTrace = <<Ev("emit")>>
  /\ datePickerInstance # NoInstance
  /\ date # Null

\* C4: at most one widget instance is live in every reachable state, it is
\* the one the component refers to, and whenever an instance is constructed
\* while another was live, that one was destroyed first.
C4_AtMostOneLive ==
  /\ Cardinality(liveInstances) <= 1
  /\ liveInstances = IF datePickerInstance = NoInstance
                     THEN {} ELSE {datePickerInstance}
  /\ \A c \in Positions("create") :
       instanceCount > 1 => \E d \in Positions("destroy") : d < c

C4_Witness ==
  /\ instanceCount >= 2
  /\ lastOp = "minimalDate"
  /\ Cardinality(liveInstances) = 1

\* C5 as stated: every mode toggle destroys exactly one prior instance
\* before creating the next.
C5_ToggleDestroysExactlyOne ==
  lastOp \in Toggles =>
    opTrace = <<Ev("destroy"), Ev("create"), Ev("detectChanges")>>

\* C5 amended: a mode toggle destroys the prior instance if there is one
\* (exactly one when an instance has been created before, none otherwise)
\* before it creates the next, and afterwards exactly one instance is live.
C5_ToggleDestroysPrior ==
  lastOp \in Toggles =>
    /\ opTrace = (IF instanceCount > 1 THEN <<Ev("destroy")>> ELSE <<>>)
                 \o <<Ev("create"), Ev("detectChanges")>>
    /\ Cardinality(liveInstances) = 1

C5_Witness ==
  /\ lastOp = "changeNonWorkingDays"
  /\ instanceCount > 1
  /\ opTrace = <<Ev("destroy"), Ev("create"), Ev("detectChanges")>>

\* C6: the debounce delay is 0 until the debounced handler has run and 800
\* ever after; only the debounced handler changes it; the first
\* reconciliation was scheduled with delay 0 and every later one with 800.
C6_DebounceDelay ==
  /\ [](debounceDelay = IF reconciledOnce
                        THEN RealDebounceDelay ELSE InitialDebounceDelay)
  /\ [][debounceDelay' # debounceDelay => lastOp' = "debounceHandler"]_vars
  /\ [][debounceDelay = RealDebounceDelay =>
          debounceDelay' = RealDebounceDelay]_vars
  /\ [][lastOp' = "debounceHandler" =>
          timer.delay = IF reconciledOnce
                        THEN RealDebounceDelay ELSE InitialDebounceDelay]_vars

C6_Witness ==
  /\ reconciledOnce
  /\ debounceDelay = RealDebounceDelay
  /\ timer.pending
  /\ timer.delay = RealDebounceDelay
  /\ timer.remaining = 0

\* C7: every manual-edit signal discards the pending timer and starts one
\* with the current delay; the handler runs only for an unreconciled signal,
\* once, and not before the delay has elapsed since the last signal.
C7_Debounced ==
  /\ [](timer.pending <=> unreconciled)
  /\ [][lastOp' = "dateChangedManually" =>
          timer' = [pending |-> TRUE, delay |-> debounceDelay,
                    remaining |-> debounceDelay]]_vars
  /\ [][lastOp' = "debounceHandler" =>
          /\ unreconciled
          /\ sinceSignal >= timer.delay
          /\ ~timer'.pending
          /\ ~unreconciled'
          /\ Cardinality(Positions("reconcile")') = 1]_vars

C7_Witness ==
  /\ lastOp = "debounceHandler"
  /\ sinceSignal = RealDebounceDelay
  /\ ~timer.pending

\* C8: after the component is torn down no minimal-date emission runs
\* initializeDatepicker and no manual-edit signal runs the debounced handler.
C8_NoCallbackAfterTeardown ==
  lifecycle = "destroyed" => lastOp \notin {"minimalDate", "debounceHandler"}

\* C9: updateDate with a non-empty string of fewer than 8 characters, called
\* directly or by the debounced handler, leaves the widget's date as it was.
C9_ShortStringIgnored ==
  [][(\/ lastOp' = "updateDate" /\ Short(opTrace'[1].value)
      \/ lastOp' = "debounceHandler" /\ Short(date))
     => /\ widget' = widget
        /\ Positions("setDates")' = {}]_vars

C9_Witness ==
  /\ lastOp = "updateDate"
  /\ opTrace = <<[e |-> "updateDate", field |-> "", value |-> "2022-7"]>>
  /\ date = "2022-7"
  /\ datePickerInstance # NoInstance
  /\ widget.selected # parseDate("2022-7")

\* C10 as stated: after updateDate with a valid string of at least 8
\* characters while a widget is live, the widget's date is the parsed
\* string and the local date is the string.
C10_WidgetAndDateFollowInput ==
  (/\ lastOp = "updateDate"
   /\ LongValid(opTrace[1].value)
   /\ datePickerInstance # NoInstance)
  => /\ widget.selected = parseDate(opTrace[1].value)
     /\ date = opTrace[1].value

\* C10 amended: updateDate never assigns the local date; after updateDate
\* with a valid string of at least 8 characters that is the local date (as
\* in the debounced handler) while a widget is live, the widget's date is
\* the parsed string.
C10_WidgetFollowsLocalDate ==
  /\ []((/\ lastOp = "updateDate"
         /\ LongValid(opTrace[1].value)
         /\ date = opTrace[1].value
         /\ datePickerInstance # NoInstance)
        => widget.selected = parseDate(opTrace[1].value))
  /\ []((/\ lastOp = "debounceHandler"
         /\ LongValid(date)
         /\ datePickerInstance # NoInstance)
        => widget.selected = parseDate(date))
  /\ [][lastOp' \in {"updateDate", "debounceHandler"} => date' = date]_vars

C10_Witness ==
  /\ lastOp = "updateDate"
  /\ opTrace[1].value = "2022-7-1"
  /\ date = "2022-7-1"
  /\ datePickerInstance # NoInstance
  /\ widget.selected = Jul01
  /\ widget.initial = ""

\* a null value, or a string of at least MinimalLength characters that is
\* no valid date
Rejected(s) == s = Null \/ (Len(s) >= MinimalLength /\ ~validDate(s))

\* effects that reach outside the component or report an error
Outward == Positions("setValue") \cup Positions("emit") \cup Positions("TypeError")

C12_InvalidSilentlyIgnored ==
  /\ [][(lastOp' = "updateDate" /\ Rejected(opTrace'[1].value)) =>
          /\ UNCHANGED <<widget, widgetVars, formVars, timerVars, envVars>>
          /\ Len(opTrace') = 1]_vars
  /\ [][(lastOp' = "debounceHandler" /\ Rejected(date)) =>
          /\ UNCHANGED <<widget, widgetVars, date, scheduleManually,
                         ignoreNonWorkingDays, envVars>>
          /\ Outward' = {}
          /\ Positions("setDates")' = {}]_vars
  /\ []((/\ lastOp = "updateDate"
         /\ Rejected(opTrace[1].value)
         /\ datePickerInstance # NoInstance
         /\ lifecycle = "viewInit")
        => \A v \in {d \in DateStrings : LongValid(d)} :
             /\ updateDate(v).trace # <<>>
             /\ date = v => updateDate(v).widget.selected = parseDate(v))

C12_Witness ==
  /\ lastOp = "updateDate"
  /\ opTrace = <<[e |-> "updateDate", field |-> "", value |-> "2022-13-45"]>>
  /\ date = "2022-7-1"
  /\ datePickerInstance # NoInstance
  /\ widget.selected = NoSelection

DateOrEmpty == IF date = Null THEN "" ELSE date

\* C14: every minimal-date emission handled after view initialization
\* destroys the prior instance, if any, before it constructs the one live
\* instance, whose floor is the emitted value and whose initial date is the
\* current local date.
C14_EmissionReinitializes ==
  [][lastOp' = "minimalDate" =>
       /\ "minimalDate" \in subscriptions
       /\ widget'.minimalDate = opTrace'[1].value
       /\ widget'.initial = DateOrEmpty
       /\ date' = date
       /\ datePickerInstance' # datePickerInstance
       /\ liveInstances' = {datePickerInstance'}
       /\ Cardinality(Positions("create")') = 1
       /\ Cardinality(Positions("destroy")') =
            IF datePickerInstance = NoInstance THEN 0 ELSE 1
       /\ \A d \in Positions("destroy")', c \in Positions("create")' : d < c]_vars

C14_Witness ==
  /\ lastOp = "minimalDate"
  /\ opTrace[1].value = Jul01
  /\ instanceCount = 2
  /\ widget = [initial |-> "2022-7-1", minimalDate |-> Jul01, selected |-> Jul01]
  /\ liveInstances = {2}

\* C15: onChange with a non-empty selection sets the local date to the
\* formatted first date and the widget's date to that date; with an empty
\* selection it leaves both; either way it requests exactly one
\* change-detection pass and writes nothing into the changeset.
C15_OnChange ==
  [][lastOp' = "onChange" =>
       /\ opTrace'[1].value # NoSelection =>
            /\ date' = formattedISODate(opTrace'[1].value)
            /\ widget'.selected = opTrace'[1].value
       /\ opTrace'[1].value = NoSelection => UNCHANGED <<date, widget>>
       /\ Cardinality(Positions("detectChanges")') = 1
       /\ Positions("setValue")' = {}]_vars

C15_Witness ==
  /\ lastOp = "onChange"
  /\ opTrace[1].value = Jul19
  /\ date = "2022-07-19"
  /\ widget.selected = Jul19
  /\ widget.initial = "2022-7-1"

Floor(d) == IF d \in Dates THEN d ELSE Null

C17_FloorIsLastEmitted ==
  (emitted # Undefined /\ datePickerInstance # NoInstance) =>
    Floor(widget.minimalDate) = Floor(emitted)

\* C18: the debounced handler running while no widget instance exists
\* touches no widget, raises no error and sets the delay to 800; every
\* initialization constructs the widget with the local date of that moment,
\* or the empty string when it is null.
C18_EditBeforeWidget ==
  /\ [][(lastOp' = "debounceHandler" /\ datePickerInstance = NoInstance) =>
          /\ UNCHANGED <<widget, widgetVars, date>>
          /\ debounceDelay' = RealDebounceDelay
          /\ opTrace' = <<Ev("reconcile")>>]_vars
  /\ [][instanceCount' # instanceCount =>
          /\ widget'.initial = DateOrEmpty
          /\ widget'.selected = Selection(parseDate(DateOrEmpty))
          /\ date' = date]_vars

C18_Witness ==
  /\ lastOp = "minimalDate"
  /\ instanceCount = 1
  /\ reconciledOnce
  /\ debounceDelay = RealDebounceDelay
  /\ ~timer.pending
  /\ date = "2022-7-1"
  /\ widget.initial = "2022-7-1"
  /\ widget.selected = Jul01
====
